---- MODULE Spec2Model ----
(***************************************************************************)
(* A model of fetch_icebridge_data.py: main() and the helpers it calls.    *)
(*                                                                         *)
(* One run of main is one behaviour.  The inputs of the run are the parsed *)
(* command line (argsIn), the authentication files (authFiles), the remote *)
(* archive (lidarUrls, remoteIndex, curlOutcome) and the output folder as  *)
(* it is found (rawIndex, parsedIndex, fs).  main is sequential, so every  *)
(* action is one block of main, taken in program order (pc).               *)
(*                                                                         *)
(* A file name of the archive is the record [frame, xml]: the frame number *)
(* its digits encode, and whether it is the ".xml" companion of the data   *)
(* file.  The date and the site are fixed during a run and are left out of *)
(* the folder URL.                                                         *)
(***************************************************************************)
EXTENDS Integers, Sequences, FiniteSets, TLC

VARIABLES
  argsIn,            \* the options as parser.parse_args returned them
  authFiles,         \* ~/.netrc and ~/.urs_cookies both exist
  lidarUrls,         \* the lidar types whose folder URL exists on the archive
  remoteIndex,       \* the file names the type's regex finds in the fetched index.html
  curlOutcome,       \* what curl -O leaves for a data file when the fetch goes wrong
  options,           \* the options object, updated by main
  rawIndex,          \* <type>_index.html exists in the output folder
  parsedIndex,       \* <type>_index.html.csv: [exists, lines]
  fs,                \* data files of the output folder: name -> "empty" | "valid" | "invalid"
  pc,                \* position in main
  retval,            \* "running", "0", "-1" or "exception"
  folderUrl,
  frameDict,
  firstFrame,
  lastFrame,
  allFrames,
  frameIdx,          \* position of the loop `for frame in allFrames`
  currFilesToFetch,  \* what is left of the loop `for filename in currFilesToFetch`
  allFilesToFetch,
  curlCmd,           \* the URLs added to the pending command after baseCmd
  currentFileCount,
  verifyIdx,         \* position of the loop `for outputPath in allFilesToFetch`
  logged,            \* the download commands given to logger.info
  executed,          \* the download commands given to subprocess.Popen
  removed,           \* the paths given to os.remove
  indexOps,          \* the operations on the two index files, in order
  warnings           \* the frames warned about as not found in this flight

vars == <<argsIn, authFiles, lidarUrls, remoteIndex, curlOutcome, options,
          rawIndex, parsedIndex, fs, pc, retval, folderUrl, frameDict,
          firstFrame, lastFrame, allFrames, frameIdx, currFilesToFetch,
          allFilesToFetch, curlCmd, currentFileCount, verifyIdx, logged,
          executed, removed, indexOps, warnings>>

(***************************************************************************)
(* Bounds of the model.                                                    *)
(***************************************************************************)
MaxFrame == 2          \* frame numbers of the small runs are 0..MaxFrame
MaxPresent == 2        \* data files found in the output folder at the start
BatchFrames == 51      \* frames of the index in the runs that fill a batch

Frames == 0..MaxFrame

(***************************************************************************)
(* Constants of the program.                                               *)
(***************************************************************************)
\* A string that the program changes the case of is held as the sequence of
\* its characters: these are the literals 'image', 'ortho', 'dem', 'lidar',
\* 'lvis', 'atm1', 'atm2' of the program, and one name that is no type.
str_image == <<"i", "m", "a", "g", "e">>
str_ortho == <<"o", "r", "t", "h", "o">>
str_dem   == <<"d", "e", "m">>
str_lidar == <<"l", "i", "d", "a", "r">>
str_lvis  == <<"l", "v", "i", "s">>
str_atm1  == <<"a", "t", "m", "1">>
str_atm2  == <<"a", "t", "m", "2">>
str_video == <<"v", "i", "d", "e", "o">>

LIDAR_TYPES == <<str_lvis, str_atm1, str_atm2>>
KNOWN_TYPES == {str_image, str_ortho, str_dem, str_lidar}
MAX_IN_ONE_CALL == 100
\* optparse's default=None, the value of an option that is not given.  None
\* is no integer and no string, so the value of an option is held as a
\* tuple: None is the empty tuple, and the value v is <<v>>.
None == <<>>
getLargestFrame == 99999
getSmallestFrame == 0
\* The lastFrame = "" of line 324, which is equal to no frame number: the
\* last frame is held as a tuple too, <<f>> for the frame f.
NoFrame == <<>>

IsLidarType(t) == \E i \in DOMAIN LIDAR_TYPES : LIDAR_TYPES[i] = t

\* Python's truth value of the value of an integer option: None and 0 are
\* false, every other integer is true.
Truthy(x) == x # None /\ x # <<0>>

\* Python's truth value of the value of a string option, the string being
\* the sequence of its characters: None and '' are false.
TruthyStr(x) == x # None /\ x # <<<<>>>>

\* Python 2's a <= b on the values of integer options: None is below every
\* integer.
PyLE(a, b) ==
  IF a = None THEN TRUE ELSE IF b = None THEN FALSE ELSE a[1] <= b[1]

\* `x in frameDict` for the value of an integer option.
inDict(x, keys) == x # None /\ x[1] \in keys

\* str.lower: every character 'A'..'Z' is replaced by its lowercase letter,
\* every other character is kept.
ascii_uppercase == <<"A", "B", "C", "D", "E", "F", "G", "H", "I", "J", "K", "L", "M",
                    "N", "O", "P", "Q", "R", "S", "T", "U", "V", "W", "X", "Y", "Z">>
ascii_lowercase == <<"a", "b", "c", "d", "e", "f", "g", "h", "i", "j", "k", "l", "m",
                    "n", "o", "p", "q", "r", "s", "t", "u", "v", "w", "x", "y", "z">>

lowerChar(c) ==
  IF \E i \in DOMAIN ascii_uppercase : ascii_uppercase[i] = c
  THEN ascii_lowercase[CHOOSE i \in DOMAIN ascii_uppercase : ascii_uppercase[i] = c]
  ELSE c

lower(t) == [i \in DOMAIN t |-> lowerChar(t[i])]

(***************************************************************************)
(* Helpers.                                                                *)
(***************************************************************************)
Min(S) == CHOOSE x \in S : \A y \in S : x <= y
Max(S) == CHOOSE x \in S : \A y \in S : x >= y

RECURSIVE sorted(_)
sorted(S) == IF S = {} THEN <<>> ELSE <<Min(S)>> \o sorted(S \ {Min(S)})

Range(s) == {s[i] : i \in DOMAIN s}

getFolderUrl(fileType) ==
  CASE fileType = str_image -> "ICEBRIDGE_FTP/IODMS0_DMSraw_v01"
    [] fileType = str_ortho -> "ICEBRIDGE/IODMS1B.001"
    [] fileType = str_dem   -> "ICEBRIDGE/IODMS3.001"
    [] fileType = str_lvis  -> "ICEBRIDGE/ILVIS2.001/"
    [] fileType = str_atm1  -> "ICEBRIDGE/ILATM1B.001/"
    [] fileType = str_atm2  -> "ICEBRIDGE/ILATM1B.002/"
    [] OTHER              -> "UnboundLocalError"   \* line 97: base is not set

checkIfUrlExists(lidar) == lidar \in lidarUrls

\* A variant of FileExistsIn that leaves out the size: os.path.exists alone.
FileExistsAnySize(folder, path) == path \in DOMAIN folder

FileExistsIn(folder, path) == path \in DOMAIN folder /\ folder[path] # "empty"

fileExists(path) == FileExistsIn(fs, path)

indexFileExists(index) == index.exists /\ index.lines # <<>>

getFrameNumberFromFilename2(filename) == filename.frame

\* The extensions the type's regex selects: .JPG and .tif are image
\* extensions, .TXT, .qi, .h5 and every .xml companion are not.
hasImageExtension(path, fileType) ==
  ~path.xml /\ fileType \in {str_image, str_ortho, str_dem}

isValidImage(path) == fs[path] = "valid"

osRemove(folder, path) == [p \in DOMAIN folder \ {path} |-> folder[p]]

\* re.findall on the index text: every type of fetchAndParseIndexFile has a
\* pattern, any other type leaves the list empty.
fileList(fileType) ==
  IF fileType \in {str_image, str_ortho, str_dem} \/ IsLidarType(fileType)
  THEN remoteIndex ELSE <<>>

parsedLines(names) ==
  [i \in DOMAIN names |-> <<getFrameNumberFromFilename2(names[i]), names[i]>>]

\* s[a:b] of a string.
slice(s, a, b) == SubSeq(s, a + 1, Min({b, Len(s)}))

\* int(s) of a string of decimal digits; int('') raises ValueError.
RECURSIVE int(_)
int(s) ==
  IF Len(s) = 1 THEN s[1] ELSE 10 * int(SubSeq(s, 1, Len(s) - 1)) + s[Len(s)]

intRaises(s) == s = <<>>

\* Lines 199-202: --yyyymmdd sets year, month and day, one after the other,
\* up to the first slice that int() rejects.
unifiedDate(opts) ==
  IF ~TruthyStr(opts.yyyymmdd) THEN [options |-> opts, raised |-> FALSE]
  ELSE LET s  == opts.yyyymmdd[1]
           y  == slice(s, 0, 4)
           m  == slice(s, 4, 6)
           d  == slice(s, 6, 8)
           o1 == [opts EXCEPT !.year = <<int(y)>>]
           o2 == [o1 EXCEPT !.month = <<int(m)>>]
           o3 == [o2 EXCEPT !.day = <<int(d)>>]
       IN IF intRaises(y) THEN [options |-> opts, raised |-> TRUE]
          ELSE IF intRaises(m) THEN [options |-> o1, raised |-> TRUE]
          ELSE IF intRaises(d) THEN [options |-> o2, raised |-> TRUE]
          ELSE [options |-> o3, raised |-> FALSE]

\* Lines 204-205: `if not options.stopFrame: options.stopFrame = options.startFrame`.
defaultStopFrame(opts) ==
  IF ~Truthy(opts.stopFrame) THEN [opts EXCEPT !.stopFrame = opts.startFrame]
  ELSE opts

\* The dictionary the loop of lines 287-295 builds: a later line of the
\* parsed index replaces an earlier one of the same frame.
readFrameDict(lines) ==
  LET keys == {lines[i][1] : i \in DOMAIN lines}
      lastLine(f) == Max({i \in DOMAIN lines : lines[i][1] = f})
  IN [f \in keys |-> lines[lastLine(f)][2]]

\* Line 329.
inRange(frame, opts) ==
  PyLE(opts.startFrame, <<frame>>) /\ PyLE(<<frame>>, opts.stopFrame)

\* Lines 335-337.
filesOfFrame(filename, fileType) ==
  IF IsLidarType(fileType) \/ fileType = str_ortho
  THEN <<filename, [filename EXCEPT !.xml = TRUE]>>
  ELSE <<filename>>

osPathJoin(folder, filename) == [folder |-> folder, name |-> filename]

\* Lines 346-347.
wipeNeeded(path, opts) ==
  /\ opts.zipIfAllFetched
  /\ hasImageExtension(path, opts.type)
  /\ fileExists(path)
  /\ ~isValidImage(path)

\* A variant of flushDue that leaves out the last frame: the command is
\* issued only when it is full.
flushDueWhenFull(count, frame, last) ==
  count >= MAX_IN_ONE_CALL /\ count > 0

\* Line 357.
flushDue(count, frame, last) ==
  (count >= MAX_IN_ONE_CALL \/ <<frame>> = last) /\ count > 0

\* What curl -O leaves in the output folder for one name.
curlResult(name) ==
  IF name \in DOMAIN curlOutcome THEN curlOutcome[name] ELSE "valid"

\* subprocess.Popen(curlCmd, cwd=outputFolder): every URL of the command is
\* fetched into the file of its name; a fetch that leaves nothing keeps the
\* folder as it was for that name.
Download(folder, cmd) ==
  LET got == {u.name : u \in {v \in Range(cmd) : curlResult(v.name) # "none"}}
  IN [p \in DOMAIN folder \cup got |->
        IF p \in got THEN curlResult(p) ELSE folder[p]]

inputs   == <<argsIn, authFiles, lidarUrls, remoteIndex, curlOutcome>>
indexFs  == <<rawIndex, parsedIndex, indexOps>>
readVars == <<frameDict, firstFrame, lastFrame, allFrames, warnings>>
loopVars == <<frameIdx, currFilesToFetch, allFilesToFetch, curlCmd,
              currentFileCount, logged, executed>>
dataFs   == <<fs, removed>>

Finish(code) == pc' = "done" /\ retval' = code

(***************************************************************************)
(* main, lines 193-220: the checks of the command line.  The ValueError of *)
(* int() is not caught and ends the run.                                   *)
(***************************************************************************)
ParseArgs ==
  /\ pc = "parse"
  /\ IF argsIn.numArgs # 1
     THEN /\ Finish("-1")
          /\ UNCHANGED options
     ELSE LET dated == unifiedDate(options)
              opts  == defaultStopFrame(dated.options)
          IN IF dated.raised
             THEN /\ options' = dated.options
                  /\ Finish("ValueError")
             ELSE /\ options' = opts
                  /\ IF ~Truthy(opts.year) \/ ~Truthy(opts.month) \/ ~Truthy(opts.day)
                     THEN Finish("-1")
                     ELSE IF /\ opts.type = str_image
                             /\ ~(opts.site = <<"AN">> \/ opts.site = <<"GR">>)
                     THEN Finish("-1")
                     ELSE IF lower(opts.type) \notin KNOWN_TYPES
                     THEN Finish("-1")
                     ELSE pc' = "auth" /\ UNCHANGED retval
  /\ UNCHANGED <<inputs, indexFs, readVars, loopVars, dataFs, folderUrl, verifyIdx>>

(***************************************************************************)
(* main, lines 226-233: the authentication files.                          *)
(***************************************************************************)
CheckAuth ==
  /\ pc = "auth"
  /\ IF ~authFiles THEN Finish("-1") ELSE pc' = "url" /\ UNCHANGED retval
  /\ UNCHANGED <<inputs, options, indexFs, readVars, loopVars, dataFs,
                 folderUrl, verifyIdx>>

(***************************************************************************)
(* main, lines 236-255: the folder URL, and for lidar the first of the     *)
(* three sources whose URL exists.  getFolderUrl raises UnboundLocalError  *)
(* for a type it has no base URL for, and that ends the run.               *)
(***************************************************************************)
ResolveUrl ==
  /\ pc = "url"
  /\ IF options.type = str_lidar
     THEN LET hits == {i \in DOMAIN LIDAR_TYPES : checkIfUrlExists(LIDAR_TYPES[i])}
          IN IF hits # {}
             THEN /\ options' = [options EXCEPT !.allFrames = TRUE,
                                                !.type = LIDAR_TYPES[Min(hits)]]
                  /\ folderUrl' = getFolderUrl(LIDAR_TYPES[Min(hits)])
                  /\ pc' = "refetch" /\ UNCHANGED retval
             ELSE /\ options' = [options EXCEPT !.allFrames = TRUE]
                  /\ folderUrl' = getFolderUrl(LIDAR_TYPES[Len(LIDAR_TYPES)])
                  /\ IF options.zipIfAllFetched
                     THEN pc' = "refetch" /\ UNCHANGED retval
                     ELSE Finish("-1")
     ELSE IF getFolderUrl(options.type) = "UnboundLocalError"
     THEN /\ Finish("UnboundLocalError")
          /\ UNCHANGED <<options, folderUrl>>
     ELSE /\ folderUrl' = getFolderUrl(options.type)
          /\ pc' = "refetch"
          /\ UNCHANGED <<options, retval>>
  /\ UNCHANGED <<inputs, indexFs, readVars, loopVars, dataFs, verifyIdx>>

\* A variant of RefetchIndex that removes index.html alone.
RefetchIndexRawOnly ==
  /\ pc = "refetch"
  /\ IF options.refetchIndex
     THEN /\ rawIndex' = FALSE
          /\ indexOps' = Append(indexOps, "rm_raw")
          /\ UNCHANGED parsedIndex
     ELSE UNCHANGED indexFs
  /\ pc' = "index"
  /\ UNCHANGED <<inputs, options, readVars, loopVars, dataFs, folderUrl,
                 verifyIdx, retval>>

(***************************************************************************)
(* main, lines 262-264: --refetch-index removes both index files.          *)
(***************************************************************************)
RefetchIndex ==
  /\ pc = "refetch"
  /\ IF options.refetchIndex
     THEN /\ rawIndex' = FALSE
          /\ parsedIndex' = [exists |-> FALSE, lines |-> <<>>]
          /\ indexOps' = indexOps \o <<"rm_raw", "rm_parsed">>
     ELSE UNCHANGED indexFs
  /\ pc' = "index"
  /\ UNCHANGED <<inputs, options, readVars, loopVars, dataFs, folderUrl,
                 verifyIdx, retval>>

\* fetchAndParseIndexFile, lines 105-151: curl writes index.html, and the
\* parsed index is written with one line per matched file name.
fetchAndParseIndexFile(fileType) ==
  /\ rawIndex' = TRUE
  /\ parsedIndex' = [exists |-> TRUE, lines |-> parsedLines(fileList(fileType))]
  /\ indexOps' = indexOps \o <<"fetch", "write_parsed">>

(***************************************************************************)
(* main, lines 266-269: keep the parsed index, or fetch and parse it.      *)
(***************************************************************************)
FetchIndex ==
  /\ pc = "index"
  /\ IF indexFileExists(parsedIndex)
     THEN UNCHANGED indexFs
     ELSE fetchAndParseIndexFile(options.type)
  /\ pc' = "zipcheck"
  /\ UNCHANGED <<inputs, options, readVars, loopVars, dataFs, folderUrl,
                 verifyIdx, retval>>

(***************************************************************************)
(* main, lines 271-276: with --zip-if-all-fetched an empty index is fatal, *)
(* unless the type is dem or lidar.                                        *)
(***************************************************************************)
ZipIndexCheck ==
  /\ pc = "zipcheck"
  /\ IF /\ options.zipIfAllFetched
        /\ ~indexFileExists(parsedIndex)
        /\ options.type # str_dem
        /\ options.type # str_lidar
     THEN Finish("exception")
     ELSE pc' = "read" /\ UNCHANGED retval
  /\ UNCHANGED <<inputs, options, indexFs, readVars, loopVars, dataFs,
                 folderUrl, verifyIdx>>

(***************************************************************************)
(* main, lines 284-326: read the parsed index, fix the frame range, warn   *)
(* about missing end frames, sort the frames.                              *)
(***************************************************************************)
ReadIndex ==
  /\ pc = "read"
  /\ LET dict  == readFrameDict(parsedIndex.lines)
         keys  == DOMAIN dict
         first == Min(keys \cup {getLargestFrame})
         last  == Max(keys \cup {getSmallestFrame})
         opts  == IF options.allFrames
                  THEN [options EXCEPT !.startFrame = <<first>>,
                                       !.stopFrame = <<last>>]
                  ELSE options
         order == sorted(keys)
     IN /\ indexOps' = Append(indexOps, "read_parsed")
        /\ frameDict' = dict
        /\ firstFrame' = first
        /\ options' = opts
        /\ warnings' =
             (IF ~inDict(opts.startFrame, keys) THEN <<opts.startFrame>> ELSE <<>>)
             \o (IF Truthy(opts.stopFrame) /\ ~inDict(opts.stopFrame, keys)
                 THEN <<opts.stopFrame>> ELSE <<>>)
        /\ allFrames' = order
        /\ lastFrame' = IF Len(order) > 0 THEN <<order[Len(order)]>> ELSE NoFrame
        /\ frameIdx' = 1
        /\ pc' = IF Len(order) > 0 THEN "frame" ELSE "verify"
  /\ UNCHANGED <<inputs, rawIndex, parsedIndex, dataFs, folderUrl, verifyIdx,
                 retval, currFilesToFetch, allFilesToFetch, curlCmd,
                 currentFileCount, logged, executed>>

(***************************************************************************)
(* main, lines 328-337: the next frame of the loop, and its files when the *)
(* frame is in the range.                                                  *)
(***************************************************************************)
BeginFrame ==
  /\ pc = "frame"
  /\ LET frame == allFrames[frameIdx]
     IN IF inRange(frame, options)
        THEN /\ currFilesToFetch' = filesOfFrame(frameDict[frame], options.type)
             /\ pc' = "file"
        ELSE /\ currFilesToFetch' = <<>>
             /\ pc' = "flush"
  /\ UNCHANGED <<inputs, options, indexFs, readVars, dataFs, folderUrl,
                 verifyIdx, retval, frameIdx, allFilesToFetch, curlCmd,
                 currentFileCount, logged, executed>>

(***************************************************************************)
(* main, lines 339-354: one file of the frame: wipe it when it is an       *)
(* invalid image (with --zip-if-all-fetched), add its URL when it is       *)
(* missing.                                                                *)
(***************************************************************************)
ConsiderFile ==
  /\ pc = "file"
  /\ LET filename   == Head(currFilesToFetch)
         url        == osPathJoin(folderUrl, filename)
         outputPath == filename
         wipe       == wipeNeeded(outputPath, options)
         folder     == IF wipe THEN osRemove(fs, outputPath) ELSE fs
     IN /\ allFilesToFetch' = Append(allFilesToFetch, outputPath)
        /\ fs' = folder
        /\ removed' = IF wipe THEN Append(removed, outputPath) ELSE removed
        /\ IF ~FileExistsIn(folder, outputPath)
           THEN /\ curlCmd' = Append(curlCmd, url)
                /\ currentFileCount' = currentFileCount + 1
           ELSE UNCHANGED <<curlCmd, currentFileCount>>
  /\ currFilesToFetch' = Tail(currFilesToFetch)
  /\ pc' = IF Tail(currFilesToFetch) = <<>> THEN "flush" ELSE "file"
  /\ UNCHANGED <<inputs, options, indexFs, readVars, folderUrl, verifyIdx,
                 retval, frameIdx, logged, executed>>

(***************************************************************************)
(* main, lines 357-365: at the end of each pass of the loop over frames,   *)
(* issue the pending command when it is full or the frames ran out.        *)
(***************************************************************************)
EndFrame ==
  /\ pc = "flush"
  /\ IF flushDue(currentFileCount, allFrames[frameIdx], lastFrame)
     THEN /\ logged' = Append(logged, curlCmd)
          /\ IF ~options.dryRun
             THEN /\ executed' = Append(executed, curlCmd)
                  /\ fs' = Download(fs, curlCmd)
             ELSE UNCHANGED <<executed, fs>>
          /\ currentFileCount' = 0
          /\ curlCmd' = <<>>
     ELSE UNCHANGED <<logged, executed, fs, currentFileCount, curlCmd>>
  /\ frameIdx' = frameIdx + 1
  /\ pc' = IF frameIdx < Len(allFrames) THEN "frame" ELSE "verify"
  /\ UNCHANGED <<inputs, options, indexFs, readVars, removed, folderUrl,
                 verifyIdx, retval, currFilesToFetch, allFilesToFetch>>

\* A variant of VerifyFile with the `continue` of line 374 left in: the
\* final check looks at the existence of the file alone.
VerifyFileDebugContinue ==
  /\ pc = "verify"
  /\ options.zipIfAllFetched
  /\ verifyIdx <= Len(allFilesToFetch)
  /\ IF ~fileExists(allFilesToFetch[verifyIdx])
     THEN Finish("exception") /\ UNCHANGED verifyIdx
     ELSE verifyIdx' = verifyIdx + 1 /\ UNCHANGED <<pc, retval>>
  /\ UNCHANGED <<inputs, options, indexFs, readVars, loopVars, dataFs, folderUrl>>

(***************************************************************************)
(* main, lines 369-383: with --zip-if-all-fetched, one file of the final   *)
(* check.                                                                  *)
(***************************************************************************)
VerifyFile ==
  /\ pc = "verify"
  /\ options.zipIfAllFetched
  /\ verifyIdx <= Len(allFilesToFetch)
  /\ LET outputPath == allFilesToFetch[verifyIdx]
     IN IF ~fileExists(outputPath)
        THEN Finish("exception") /\ UNCHANGED <<dataFs, verifyIdx>>
        ELSE IF hasImageExtension(outputPath, options.type) /\ ~isValidImage(outputPath)
        THEN /\ fs' = osRemove(fs, outputPath)
             /\ removed' = Append(removed, outputPath)
             /\ Finish("exception")
             /\ UNCHANGED verifyIdx
        ELSE /\ verifyIdx' = verifyIdx + 1
             /\ UNCHANGED <<dataFs, pc, retval>>
  /\ UNCHANGED <<inputs, options, indexFs, readVars, loopVars, folderUrl>>

(***************************************************************************)
(* main, line 386.                                                         *)
(***************************************************************************)
Return0 ==
  /\ pc = "verify"
  /\ ~options.zipIfAllFetched \/ verifyIdx > Len(allFilesToFetch)
  /\ Finish("0")
  /\ UNCHANGED <<inputs, options, indexFs, readVars, loopVars, dataFs,
                 folderUrl, verifyIdx>>

Next ==
  \/ ParseArgs
  \/ CheckAuth
  \/ ResolveUrl
  \/ RefetchIndex
  \/ FetchIndex
  \/ ZipIndexCheck
  \/ ReadIndex
  \/ BeginFrame
  \/ ConsiderFile
  \/ EndFrame
  \/ VerifyFile
  \/ Return0

(***************************************************************************)
(* The runs that are checked: each is a command line, an archive and an    *)
(* output folder.                                                          *)
(***************************************************************************)
\* What parse_args gives for the empty command line: the default of every
\* option, and no positional argument.
DefaultArgs ==
  [numArgs |-> 0, year |-> None, month |-> None, day |-> None,
   yyyymmdd |-> None, site |-> None, startFrame |-> None, stopFrame |-> None,
   allFrames |-> FALSE, dryRun |-> FALSE, zipIfAllFetched |-> FALSE,
   refetchIndex |-> FALSE, type |-> str_image]

\* The command line `--site AN --year 2009 --month 10 --day 16 OUT`.
BaseArgs ==
  [DefaultArgs EXCEPT !.numArgs = 1, !.site = <<"AN">>, !.year = <<2009>>,
                      !.month = <<10>>, !.day = <<16>>]

Name(f) == [frame |-> f, xml |-> FALSE]
Xml(f)  == [frame |-> f, xml |-> TRUE]

Listing(frames) == [i \in DOMAIN frames |-> Name(frames[i])]
NoFile == [exists |-> FALSE, lines |-> <<>>]
ParsedFile(frames) == [exists |-> TRUE, lines |-> parsedLines(Listing(frames))]

\* The type main works with once a lidar source is chosen.
TypeOnArchive(type, urls) ==
  IF type = str_lidar /\ urls # {}
  THEN LIDAR_TYPES[Min({i \in DOMAIN LIDAR_TYPES : LIDAR_TYPES[i] \in urls})]
  ELSE type

\* The data files a folder of the type can hold for the frames.
FilesOf(frames, type) ==
  {Name(f) : f \in frames}
  \cup (IF IsLidarType(type) \/ type = str_ortho THEN {Xml(f) : f \in frames} ELSE {})

FileStates(path, type) ==
  IF hasImageExtension(path, type) THEN {"empty", "valid", "invalid"}
  ELSE {"empty", "valid"}

Outcomes(path, type) ==
  IF hasImageExtension(path, type) THEN {"none", "empty", "invalid"}
  ELSE {"none", "empty"}

\* The folders holding at most k of the files.
Folders(files, type, k) ==
  UNION {{f \in [S -> {"empty", "valid", "invalid"}] :
            \A p \in S : f[p] \in FileStates(p, type)} :
         S \in {T \in SUBSET files : Cardinality(T) <= k}}

\* The archives on which at most k of the files fail to download.
Failures(files, type, k) ==
  UNION {{f \in [S -> {"none", "empty", "invalid"}] :
            \A p \in S : f[p] \in Outcomes(p, type)} :
         S \in {T \in SUBSET files : Cardinality(T) <= k}}

StartWith(args, auth, urls, remote, outcome, raw, parsed, folder) ==
  /\ argsIn = args
  /\ options = args
  /\ authFiles = auth
  /\ lidarUrls = urls
  /\ remoteIndex = remote
  /\ curlOutcome = outcome
  /\ rawIndex = raw
  /\ parsedIndex = parsed
  /\ fs = folder
  /\ pc = "parse"
  /\ retval = "running"
  /\ folderUrl = ""
  /\ frameDict = <<>>
  /\ firstFrame = getLargestFrame
  /\ lastFrame = NoFrame
  /\ allFrames = <<>>
  /\ frameIdx = 0
  /\ currFilesToFetch = <<>>
  /\ allFilesToFetch = <<>>
  /\ curlCmd = <<>>
  /\ currentFileCount = 0
  /\ verifyIdx = 1
  /\ logged = <<>>
  /\ executed = <<>>
  /\ removed = <<>>
  /\ indexOps = <<>>
  /\ warnings = <<>>

UpTo(n) == [i \in 1..n |-> i]
FromZero == [i \in 1..(MaxFrame + 1) |-> i - 1]

\* The command lines that try the checks of the arguments: the positional
\* arguments, the date in both forms, the site and the spelling of the type.
CheckedArgs ==
  {DefaultArgs,
   [DefaultArgs EXCEPT !.numArgs = 1],
   [BaseArgs EXCEPT !.numArgs = 0],
   [BaseArgs EXCEPT !.numArgs = 2],
   [BaseArgs EXCEPT !.year = None, !.startFrame = <<1>>],
   [BaseArgs EXCEPT !.month = <<0>>],
   [BaseArgs EXCEPT !.day = None, !.stopFrame = <<-1>>],
   [BaseArgs EXCEPT !.year = None, !.month = None, !.day = None,
                    !.yyyymmdd = <<<<2, 0, 0, 9, 1, 0, 1, 6>>>>],
   [BaseArgs EXCEPT !.yyyymmdd = <<<<2, 0, 1, 1, 0, 4, 0, 5, 9>>>>],
   [BaseArgs EXCEPT !.yyyymmdd = <<<<0, 0, 0, 0, 1, 0, 1, 6>>>>],
   [BaseArgs EXCEPT !.yyyymmdd = <<<<2, 0, 0, 9>>>>],
   [BaseArgs EXCEPT !.yyyymmdd = <<<<2, 0, 0, 9, 1, 0>>>>, !.startFrame = <<1>>],
   [BaseArgs EXCEPT !.year = None, !.yyyymmdd = <<<<>>>>],
   [BaseArgs EXCEPT !.yyyymmdd = <<<<>>>>],
   [BaseArgs EXCEPT !.site = <<"XX">>],
   [BaseArgs EXCEPT !.site = None],
   [BaseArgs EXCEPT !.site = <<"GR">>],
   [BaseArgs EXCEPT !.type = str_video],
   [BaseArgs EXCEPT !.type = str_lidar],
   [BaseArgs EXCEPT !.type = str_ortho, !.site = <<"XX">>, !.startFrame = <<1>>],
   [BaseArgs EXCEPT !.type = str_dem, !.site = None],
   [BaseArgs EXCEPT !.type = <<"I", "M", "A", "G", "E">>],
   [BaseArgs EXCEPT !.type = <<"I", "M", "A", "G", "E">>, !.site = None],
   [BaseArgs EXCEPT !.type = <<"I", "m", "a", "g", "e">>],
   [BaseArgs EXCEPT !.type = <<"O", "r", "t", "h", "o">>,
                    !.refetchIndex = TRUE],
   [BaseArgs EXCEPT !.type = <<"O", "R", "T", "H", "O">>],
   [BaseArgs EXCEPT !.type = <<"D", "E", "M">>, !.zipIfAllFetched = TRUE],
   [BaseArgs EXCEPT !.type = <<"D", "e", "m">>],
   [BaseArgs EXCEPT !.type = <<"d", "E", "m">>],
   [BaseArgs EXCEPT !.type = <<"L", "i", "d", "a", "r">>],
   [BaseArgs EXCEPT !.type = <<"L", "I", "D", "A", "R">>],
   [BaseArgs EXCEPT !.type = <<"V", "I", "D", "E", "O">>],
   [BaseArgs EXCEPT !.type = <<>>]}

\* Those command lines with and without the authentication files, on an
\* archive and in a folder that hold nothing: most end at one of the early
\* checks.
RejectedRuns ==
  \E a \in CheckedArgs, auth \in BOOLEAN :
    StartWith(a, auth, {}, <<>>, <<>>, FALSE, NoFile, <<>>)

\* Frames 1..2 of an index of frames 0..MaxFrame: the folder holds some of
\* their files already, and at most one download goes wrong.
FetchRunsOf(type, urls) ==
  LET onArchive == TypeOnArchive(type, urls)
      files     == FilesOf({1, 2}, onArchive)
  IN \E stop \in {None, <<2>>}, dry \in BOOLEAN, zip \in BOOLEAN :
       \E outcome \in Failures(files, onArchive, 1) :
         \E folder \in Folders(files, onArchive, MaxPresent) :
           StartWith([BaseArgs EXCEPT !.type = type, !.startFrame = <<1>>,
                                      !.stopFrame = stop, !.dryRun = dry,
                                      !.zipIfAllFetched = zip],
                     TRUE, urls, <<>>, outcome, TRUE, ParsedFile(FromZero), folder)

FetchRuns ==
  \/ FetchRunsOf(str_image, {})
  \/ FetchRunsOf(str_ortho, {})
  \/ FetchRunsOf(str_lidar, {str_atm1, str_atm2})

\* The listings of an index: every set of frames, upward and downward, and
\* one listing that names a frame twice.
RECURSIVE reversed(_)
reversed(s) == IF s = <<>> THEN <<>> ELSE Append(reversed(Tail(s)), Head(s))

IndexContents ==
  {sorted(S) : S \in SUBSET Frames} \cup {reversed(sorted(S)) : S \in SUBSET Frames}
  \cup {<<1, 1>>}

\* The values of --start-frame and --stop-frame: not given, a frame, or a
\* negative number, which optparse takes as it takes any integer.
FrameOptions == {None} \cup {<<n>> : n \in -1..MaxFrame}

\* Every start and stop frame, given or not, on every index, the index being
\* in the folder or still on the archive.
RangeRuns ==
  \E type \in {str_image, str_lidar}, all \in BOOLEAN, kept \in BOOLEAN, zip \in BOOLEAN :
    \E start \in FrameOptions, stop \in FrameOptions :
      \E index \in IndexContents :
        StartWith([BaseArgs EXCEPT !.type = type, !.startFrame = start,
                                   !.stopFrame = stop, !.allFrames = all,
                                   !.zipIfAllFetched = zip],
                  TRUE, {str_lvis},
                  IF kept THEN <<>> ELSE Listing(index), <<>>, kept,
                  IF kept THEN ParsedFile(index) ELSE NoFile, <<>>)

\* The index files as the run finds them, with and without --refetch-index.
\* No run of this program writes a line into the index of type "lidar".
IndexRuns ==
  \E t \in {<<str_image, {}>>, <<str_dem, {}>>, <<str_lidar, {}>>,
            <<str_lidar, {str_atm2}>>, <<str_lidar, {str_lvis, str_atm1}>>} :
    \E refetch \in BOOLEAN, zip \in BOOLEAN, raw \in BOOLEAN :
      \E remote \in {<<>>, Listing(<<2, 1>>)} :
        \E parsed \in {NoFile, ParsedFile(<<>>), ParsedFile(<<1>>), ParsedFile(FromZero)} :
          /\ (t[1] = str_lidar /\ t[2] = {}) => parsed.lines = <<>>
          /\ StartWith([BaseArgs EXCEPT !.type = t[1], !.startFrame = <<1>>,
                                        !.refetchIndex = refetch,
                                        !.zipIfAllFetched = zip],
                       TRUE, t[2], remote, <<>>, raw, parsed, <<>>)

\* An index long enough to fill a download command: the folder holds at
\* most one file of frame 1, and at most one download goes wrong.
BatchRunsOf(type, urls, n, flags) ==
  LET onArchive == TypeOnArchive(type, urls)
  IN \E all \in BOOLEAN, f \in flags :
       \E outcome \in Failures(FilesOf({2}, onArchive), onArchive, 1) :
         \E folder \in Folders(FilesOf({1}, onArchive), onArchive, 1) :
           StartWith([BaseArgs EXCEPT !.type = type, !.startFrame = <<1>>,
                                      !.stopFrame = <<n - 1>>, !.allFrames = all,
                                      !.dryRun = f[1], !.zipIfAllFetched = f[2]],
                     TRUE, urls, <<>>, outcome, TRUE, ParsedFile(UpTo(n)), folder)

BatchRuns ==
  \/ BatchRunsOf(str_image, {}, 2 * BatchFrames, {<<FALSE, FALSE>>, <<TRUE, FALSE>>})
  \/ BatchRunsOf(str_ortho, {}, BatchFrames,
                 {<<FALSE, FALSE>>, <<TRUE, FALSE>>, <<FALSE, TRUE>>})
  \/ BatchRunsOf(str_lidar, {str_lvis}, BatchFrames, {<<FALSE, FALSE>>})

Init == RejectedRuns \/ FetchRuns \/ RangeRuns \/ IndexRuns

InitBatch == RejectedRuns \/ FetchRuns \/ BatchRuns

Spec == Init /\ [][Next]_vars

SpecBatch == InitBatch /\ [][Next]_vars

(***************************************************************************)
(* Vocabulary of the properties.                                           *)
(***************************************************************************)
RECURSIVE flatten(_)
flatten(cmds) == IF cmds = <<>> THEN <<>> ELSE Head(cmds) \o flatten(Tail(cmds))

\* Every URL added to a download command so far, in order: the commands
\* issued, then the pending one.
AllNamed == flatten(logged) \o curlCmd

NamedFiles == {u.name : u \in Range(AllNamed)}

Missing(folder, p) == p \notin DOMAIN folder \/ folder[p] = "empty"

InvalidImage(folder, p) ==
  /\ ~p.xml
  /\ options.type \in {str_image, str_ortho, str_dem}
  /\ p \in DOMAIN folder
  /\ folder[p] = "invalid"

\* The index has been read: the loop over the frames has begun or is over.
IndexRead == frameIdx >= 1
LoopOver  == pc = "verify" \/ (pc = "done" /\ IndexRead)

WithCompanions(names, type) ==
  names \cup (IF type \in {str_ortho, str_lvis, str_atm1, str_atm2}
              THEN {[frame |-> n.frame, xml |-> TRUE] : n \in names} ELSE {})

\* The files of the frames of the index that lie in the range main works with.
RequiredFiles ==
  WithCompanions({frameDict[f] : f \in {g \in DOMAIN frameDict :
                     inRange(g, options)}},
                 options.type)

Count(s, x) == Cardinality({i \in DOMAIN s : s[i] = x})

(***************************************************************************)
(* C1.  Fetch only missing files: a step names a file in a download        *)
(* command exactly when the step is the one that considers the file and    *)
(* the file is then absent from the output folder or empty (after the wipe *)
(* of an invalid image, if any).  No other step names a file, and no file  *)
(* that exists with a size above zero when considered is ever named.  No   *)
(* command is issued that names no file.                                   *)
(***************************************************************************)
C1_FetchOnlyMissing ==
  [][/\ \A p \in NamedFiles' \cup Range(allFilesToFetch') :
          (p \in NamedFiles') <=>
            \/ p \in NamedFiles
            \/ /\ allFilesToFetch' = Append(allFilesToFetch, p)
               /\ Missing(fs', p)
     /\ \A i \in DOMAIN logged' : logged'[i] # <<>>]_vars

C1_Witness ==
  /\ pc = "verify"
  /\ removed = <<>>
  /\ logged # <<>>
  /\ \E p \in Range(allFilesToFetch) :
       p \notin NamedFiles /\ p \in DOMAIN fs /\ fs[p] = "valid"
  /\ \E p \in Range(allFilesToFetch) : p \in NamedFiles

(***************************************************************************)
(* C2.  The files main considers are exactly the files of the frames f of  *)
(* the parsed index with start <= f <= stop, where start and stop are the  *)
(* frames asked for on the command line: stop is start when --stop-frame   *)
(* is not given, and with --all-frames (which lidar implies) the range is  *)
(* from the smallest to the largest frame of the index.  The runs meant    *)
(* are those that name a range: --start-frame or --all-frames is given.    *)
(***************************************************************************)
IndexFrames == {parsedIndex.lines[i][1] : i \in DOMAIN parsedIndex.lines}

IndexName(f) ==
  parsedIndex.lines[Max({i \in DOMAIN parsedIndex.lines :
                           parsedIndex.lines[i][1] = f})][2]

RequestedAll == argsIn.allFrames \/ argsIn.type = str_lidar

RequestedStart ==
  IF RequestedAll THEN Min(IndexFrames \cup {getLargestFrame})
  ELSE argsIn.startFrame[1]

RequestedStop ==
  IF RequestedAll THEN Max(IndexFrames \cup {getSmallestFrame})
  ELSE IF argsIn.stopFrame = None THEN argsIn.startFrame[1]
  ELSE argsIn.stopFrame[1]

RequestedFiles ==
  WithCompanions({IndexName(f) : f \in {g \in IndexFrames :
                     RequestedStart <= g /\ g <= RequestedStop}},
                 options.type)

C2_RangeAsRequested ==
  (LoopOver /\ (RequestedAll \/ argsIn.startFrame # None)) =>
     /\ Range(allFilesToFetch) = RequestedFiles
     /\ Len(allFilesToFetch) = Cardinality(RequestedFiles)

(***************************************************************************)
(* C3.  With --zip-if-all-fetched, a run that gets to the download loop    *)
(* ends with 0 or with an exception, and it ends with 0 only if every      *)
(* required file is in the output folder and is not empty.  The required   *)
(* files are those of the range main works with, and also those of the     *)
(* range asked for when the command line names one.  The two ranges differ *)
(* when --stop-frame 0 is given (lines 204-205), and below a negative      *)
(* --start-frame the range asked for is then the wider one.                *)
(***************************************************************************)
ZipRequiredFiles ==
  RequiredFiles \cup (IF RequestedAll \/ argsIn.startFrame # None
                      THEN RequestedFiles ELSE {})

C3_ZipFailsIfMissing ==
  (pc = "done" /\ IndexRead /\ argsIn.zipIfAllFetched) =>
     /\ retval \in {"0", "exception"}
     /\ (\E p \in ZipRequiredFiles : Missing(fs, p)) => retval = "exception"
     /\ retval = "0" => \A p \in ZipRequiredFiles : ~Missing(fs, p)

(***************************************************************************)
(* C4.  As claimed: no run ends with 0 while a selected image file of the  *)
(* output folder is invalid.                                               *)
(***************************************************************************)
C4_NoInvalidImageAtReturn ==
  (pc = "done" /\ retval = "0") =>
     \A p \in RequiredFiles : ~InvalidImage(fs, p)

(***************************************************************************)
(* C4, amended.  With --zip-if-all-fetched no run ends with 0 while a      *)
(* selected image file of the output folder is invalid, and every image    *)
(* the final check has looked at, the one it stopped at included, is not   *)
(* left invalid in the folder: an invalid image that is found is removed.  *)
(***************************************************************************)
C4_ZipValidatesImages ==
  (pc = "done" /\ IndexRead /\ argsIn.zipIfAllFetched) =>
     /\ retval = "0" => \A p \in RequiredFiles : ~InvalidImage(fs, p)
     /\ \A i \in DOMAIN allFilesToFetch :
          i <= verifyIdx => ~InvalidImage(fs, allFilesToFetch[i])

C4_Witness ==
  /\ pc = "done" /\ IndexRead /\ argsIn.zipIfAllFetched
  /\ retval = "exception"
  /\ executed # <<>>
  /\ removed # <<>>
  /\ removed[Len(removed)] = allFilesToFetch[verifyIdx]
  /\ removed[Len(removed)] \notin DOMAIN fs

(***************************************************************************)
(* C5.  With --dry-run no download command is executed and no data file of *)
(* the output folder is removed.                                           *)
(***************************************************************************)
C5_DryRunTouchesNothing ==
  argsIn.dryRun => executed = <<>> /\ removed = <<>>

(***************************************************************************)
(* C6.  As claimed: in every run that gets past the checks of the          *)
(* arguments, the credentials and the lidar source, the parsed index is    *)
(* written at most once and read exactly once, the read coming last.       *)
(***************************************************************************)
\* The run is over and no check of the arguments, the credentials or the
\* lidar source has ended it.
PastChecks == pc = "done" /\ retval \notin {"-1", "ValueError"}

C6_WrittenOnceReadOnce ==
  PastChecks =>
     /\ Count(indexOps, "write_parsed") <= 1
     /\ Count(indexOps, "read_parsed") = 1
     /\ indexOps[Len(indexOps)] = "read_parsed"

(***************************************************************************)
(* C6, amended.  In every run that gets past those checks the parsed index *)
(* is written at most once and read at most once, the read coming after    *)
(* any write; it is read exactly once unless the run raises 'Cannot zip,   *)
(* missing file' for an empty parsed index (--zip-if-all-fetched, a type   *)
(* other than dem and lidar), and then it is not read at all.  A run whose *)
(* --type is a known type in another case (IMAGE, Lidar) passes the checks *)
(* and ends with UnboundLocalError before it touches an index file.  While *)
(* a non-empty parsed index exists and --refetch-index is not given, no    *)
(* step fetches the index or rewrites it; with --refetch-index both index  *)
(* files are removed and fetched again before the read.                    *)
(***************************************************************************)
IndexOnceAtEnd ==
  PastChecks =>
     IF retval = "UnboundLocalError"
     THEN /\ indexOps = <<>>
          /\ options.type \notin KNOWN_TYPES
          /\ lower(options.type) \in KNOWN_TYPES
     ELSE /\ Count(indexOps, "fetch") <= 1
          /\ Count(indexOps, "write_parsed") <= 1
          /\ Count(indexOps, "read_parsed") <= 1
          /\ Count(indexOps, "read_parsed") = 1 =>
               indexOps[Len(indexOps)] = "read_parsed"
          /\ Count(indexOps, "read_parsed") = 0 <=>
               /\ retval = "exception"
               /\ ~IndexRead
               /\ argsIn.zipIfAllFetched
               /\ parsedIndex.lines = <<>>
               /\ options.type \notin {str_dem, str_lidar}
          /\ argsIn.refetchIndex =>
               /\ Len(indexOps) >= 4
               /\ SubSeq(indexOps, 1, 4) =
                    <<"rm_raw", "rm_parsed", "fetch", "write_parsed">>

C6_IndexOnce ==
  [][/\ (~argsIn.refetchIndex /\ parsedIndex.exists /\ parsedIndex.lines # <<>>) =>
          /\ parsedIndex' = parsedIndex
          /\ rawIndex' = rawIndex
          /\ indexOps' \in {indexOps, Append(indexOps, "read_parsed")}
     /\ IndexOnceAtEnd']_vars

C6_Witness ==
  /\ pc = "done" /\ retval = "0"
  /\ argsIn.refetchIndex
  /\ indexOps = <<"rm_raw", "rm_parsed", "fetch", "write_parsed", "read_parsed">>
  /\ allFilesToFetch # <<>>
  /\ executed # <<>>

(***************************************************************************)
(* C7.  Batching never loses or repeats a request: a URL, once added, stays*)
(* in the sequence of the URLs named (the commands issued, then the        *)
(* pending one); the file a step considers and finds missing is the URL    *)
(* that step adds; no file is named twice; the pending count is the length *)
(* of the pending command; the commands executed are the commands logged,  *)
(* or none under --dry-run; and when the loop over the frames is over the  *)
(* pending command is the base command and the pending count is 0.         *)
(***************************************************************************)
IsPrefix(s, t) == Len(s) <= Len(t) /\ SubSeq(t, 1, Len(s)) = s

BatchingState ==
  /\ Cardinality(NamedFiles) = Len(AllNamed)
  /\ currentFileCount = Len(curlCmd)
  /\ LoopOver => curlCmd = <<>> /\ currentFileCount = 0
  /\ \A i \in DOMAIN logged : logged[i] # <<>>
  /\ executed = IF argsIn.dryRun THEN <<>> ELSE logged

C7_Batching ==
  [][/\ IsPrefix(AllNamed, AllNamed')
     /\ \A p \in Range(allFilesToFetch') :
          (allFilesToFetch' = Append(allFilesToFetch, p) /\ Missing(fs', p)) =>
             /\ Len(AllNamed') = Len(AllNamed) + 1
             /\ AllNamed'[Len(AllNamed')].name = p
     /\ BatchingState']_vars

C7_Witness ==
  /\ pc = "verify"
  /\ Len(logged) = 2
  /\ Len(logged[1]) >= MAX_IN_ONE_CALL
  /\ options.stopFrame[1] < lastFrame[1]
  /\ executed = logged

(***************************************************************************)
(* C8.  No download command issued by main names more than MAX_IN_ONE_CALL *)
(* files.                                                                  *)
(***************************************************************************)
C8_AtMostMaxInOneCall ==
  \A i \in DOMAIN logged : Len(logged[i]) <= MAX_IN_ONE_CALL
====
